---------------------------- MODULE Spec2Model ----------------------------
(***************************************************************************)
(* A model of src/asdl.py: the ASDL tokenizer (tokenize_asdl), the         *)
(* recursive-descent parser (ASDLParser), the visitor dispatch             *)
(* (VisitorBase.visit) and the checker (Check, check).                     *)
(*                                                                         *)
(* Text is a sequence of one-character strings; a word, a token value and  *)
(* a node name are such sequences too, so that str.isalpha / str.isupper   *)
(* on the first character and the comparison with 'module' and             *)
(* 'attributes' are computed, not assumed.                                 *)
(***************************************************************************)
EXTENDS Naturals, Sequences, FiniteSets, TLC

VARIABLES
    input,      \* how the text / token stream of this run was built
    tokenizer,  \* ASDLParser._tokenizer: the suspended generator (or iterator)
    yielded,    \* the tokens the generator has yielded so far
    gstate,     \* "suspended" | "exhausted" | "raised": the generator's state
    gexc,       \* the exception the generator raised
    cur_token,  \* ASDLParser.cur_token
    pc,         \* the parser's control point
    locals,     \* the local variables of the active parser methods
    result,     \* what parse() returned or raised
    mod,        \* the Module handed to check()
    v,          \* the Check instance: cache, cons, errors, types
    out,        \* what the checker printed
    cpc,        \* the checker's control point
    visit_log,  \* per node kind: visit() calls, getattr lookups, handler calls
    handlers    \* the node kinds the visitor's class defines visitX for

tokVars   == <<tokenizer, yielded, gstate, gexc>>
parseVars == <<cur_token, pc, locals, result>>
checkVars == <<mod, v, out, cpc>>
visitVars == <<visit_log, handlers>>
vars == <<input, tokenizer, yielded, gstate, gexc, cur_token, pc, locals,
          result, mod, v, out, cpc, visit_log, handlers>>

(***************************************************************************)
(* Bounds.                                                                 *)
(***************************************************************************)
\* Longest raw text handed to the tokenizer alone.
MaxLen == 3
\* Most definitions in a generated module.
MaxDefs == 2
\* Most visit() calls on the generic visitor.
MaxVisits == 4

(***************************************************************************)
(* Characters.                                                             *)
(***************************************************************************)
Lower == {"a", "b", "c", "d", "e", "f", "g", "h", "i", "j", "k", "l", "m",
          "n", "o", "p", "q", "r", "s", "t", "u", "v", "w", "x", "y", "z"}
Upper == {"A", "B", "C", "D", "E", "F", "G", "H", "I", "J", "K", "L", "M",
          "N", "O", "P", "Q", "R", "S", "T", "U", "V", "W", "X", "Y", "Z"}
Digits == {"0", "1", "2", "3", "4", "5", "6", "7", "8", "9"}

\* str.isalpha() and str.isupper() on one character.
isalpha(c) == c \in Lower \cup Upper
isupper(c) == c \in Upper
\* \w and \s of the regular expression.
IsWordChar(c) == isalpha(c) \/ c \in Digits \/ c = "_"
IsSpace(c) == c \in {" ", "\t"}

None == "None"

(***************************************************************************)
(* TokenKind, Token, ASDLSyntaxError.                                      *)
(***************************************************************************)
\* The members of TokenKind that name token kinds, with their values.
TokenKind == [ConstructorId |-> 0, TypeId |-> 1, Equals |-> 2, Comma |-> 3,
              Question |-> 4, Pipe |-> 5, Asterisk |-> 6, LParen |-> 7,
              RParen |-> 8, LBrace |-> 9, RBrace |-> 10]
KindNames == {"ConstructorId", "TypeId", "Equals", "Comma", "Question",
              "Pipe", "Asterisk", "LParen", "RParen", "LBrace", "RBrace"}

\* The dict assigned to operator_table in the class body: the names Equals,
\* Comma, ... are still the plain integers there.
operator_table == [c \in {"=", ",", "?", "|", "(", ")", "*", "{", "}"} |->
    CASE c = "=" -> 2 [] c = "," -> 3 [] c = "?" -> 4 [] c = "|" -> 5
      [] c = "(" -> 7 [] c = ")" -> 8 [] c = "*" -> 6 [] c = "{" -> 9
      [] c = "}" -> 10]

\* TokenKind.operator_table[c].  operator_table is assigned in the body of
\* an Enum class, so it is itself a member of TokenKind (its value is the
\* dict), and a member is not subscriptable: the expression raises
\* TypeError for every c, in the table or not.
operator_table_getitem(c) == "TypeError"

Token(kind, value, lineno) == [kind |-> kind, value |-> value, lineno |-> lineno]
NoToken == Token(None, <<>>, 0)

\* An exception: its class, and for ASDLSyntaxError its msg and lineno
\* (unknown: lineno was falsy and reads '<unknown>').
NoExc == [type |-> None, msg |-> <<>>, lineno |-> 0, unknown |-> FALSE]
ASDLSyntaxError(msg, lineno) ==
    [type |-> "ASDLSyntaxError", msg |-> msg, lineno |-> lineno,
     unknown |-> (lineno = 0)]
\* An exception of the interpreter: TypeError, AttributeError.
PyError(type) == [type |-> type, msg |-> <<>>, lineno |-> 0, unknown |-> FALSE]

(***************************************************************************)
(* tokenize_asdl.                                                          *)
(***************************************************************************)
RECURSIVE splitlines(_)
splitlines(buf) ==
    IF buf = <<>> THEN <<>>
    ELSE LET nl == {i \in 1..Len(buf) : buf[i] = "\n"}
         IN IF nl = {} THEN <<buf>>
            ELSE LET k == CHOOSE i \in nl : \A j \in nl : i <= j
                 IN <<SubSeq(buf, 1, k - 1)>> \o splitlines(SubSeq(buf, k + 1, Len(buf)))

strip(line) ==
    LET ink == {i \in 1..Len(line) : ~IsSpace(line[i])}
    IN IF ink = {} THEN <<>>
       ELSE SubSeq(line, CHOOSE i \in ink : \A j \in ink : i <= j,
                         CHOOSE i \in ink : \A j \in ink : i >= j)

\* The end of the longest run of word characters that starts at i.
WordEnd(line, i) ==
    CHOOSE e \in i..Len(line) :
        /\ \A j \in i..e : IsWordChar(line[j])
        /\ e = Len(line) \/ ~IsWordChar(line[e + 1])

\* One match of r'\s*(\w+|--.*|.)' in line from position i: group 1 and the
\* position after the match; none when only the end of the line is left.
NoMatch == [c |-> <<>>, next |-> 0]
regex_match(line, i) ==
    LET rest == {j \in i..Len(line) : ~IsSpace(line[j])}
    IN IF rest = {} THEN NoMatch
       ELSE LET j == CHOOSE k \in rest : \A l \in rest : k <= l
            IN IF IsWordChar(line[j])
               THEN [c |-> SubSeq(line, j, WordEnd(line, j)), next |-> WordEnd(line, j) + 1]
               ELSE IF line[j] = "-" /\ j < Len(line) /\ line[j + 1] = "-"
               THEN [c |-> SubSeq(line, j, Len(line)), next |-> Len(line) + 1]
               ELSE [c |-> <<line[j]>>, next |-> j + 1]

\* The generator object of tokenize_asdl(buf) before its first next().
Generator(buf) ==
    [src |-> "text", lines |-> splitlines(buf), li |-> 1, ci |-> 1, c |-> <<>>,
     toks |-> <<>>, i |-> 0]
\* An iterator over a given token sequence.
Iterator(toks) ==
    [src |-> "tokens", lines |-> <<>>, li |-> 1, ci |-> 1, c |-> <<>>,
     toks |-> toks, i |-> 0]

Yield(tok, g) == [res |-> "yield", tok |-> tok, exc |-> NoExc, g |-> g]
Raise(exc, g) == [res |-> "raise", tok |-> NoToken, exc |-> exc, g |-> g]
Stop(g) == [res |-> "StopIteration", tok |-> NoToken, exc |-> NoExc, g |-> g]

\* identifier_kind with the test made on the whole word: c.isupper().
identifier_kind_whole_word(c) ==
    IF \A i \in 1..Len(c) : ~isalpha(c[i]) \/ isupper(c[i])
    THEN "ConstructorId" ELSE "TypeId"

\* The identifier branch: ConstructorId if the first character is upper case.
identifier_kind(c) == IF isupper(c[1]) THEN "ConstructorId" ELSE "TypeId"

\* The operator branch of the loop body.
operator_token(c, lineno, g) ==
    LET op_kind == operator_table_getitem(c)
    IN IF op_kind = "KeyError"
       THEN Raise(ASDLSyntaxError(<<"Invalid operator">> \o c, lineno), g)
       ELSE IF op_kind = "TypeError"
       THEN Raise(PyError("TypeError"), g)
       ELSE Yield(Token(op_kind, c, lineno), g)

\* next() on the generator: run it to its next yield, its end or its raise.
RECURSIVE resume(_)
resume(g) ==
    IF g.li > Len(g.lines) THEN Stop(g)
    ELSE LET m == regex_match(strip(g.lines[g.li]), g.ci)
             nextline == [g EXCEPT !.li = @ + 1, !.ci = 1]
             g2 == [g EXCEPT !.ci = m.next, !.c = m.c]
         IN IF m = NoMatch THEN resume(nextline)
            ELSE IF isalpha(m.c[1])
            THEN Yield(Token(identifier_kind(m.c), m.c, g.li), g2)
            ELSE IF Len(m.c) >= 2 /\ SubSeq(m.c, 1, 2) = <<"-", "-">>
            THEN resume([nextline EXCEPT !.c = m.c])
            ELSE operator_token(m.c, g.li, g2)

\* next(self._tokenizer)
next_token(t) ==
    IF t.src = "text" THEN resume(t)
    ELSE IF t.i < Len(t.toks)
         THEN Yield(t.toks[t.i + 1], [t EXCEPT !.i = @ + 1])
         ELSE Stop(t)

\* How far the tokenizer has read.
TokenPosition(t) ==
    IF t.src = "tokens" THEN t.i ELSE t.li * 1000 + t.ci

(***************************************************************************)
(* The node model: Module, Type, Constructor, Field, Sum, Product.  A      *)
(* field's name (None when absent) and an absent field list are the empty  *)
(* sequence: no token has an empty value, and "fields or [ ]" makes None   *)
(* the empty list anyway.                                                  *)
(***************************************************************************)
NoName == <<>>
Field(type, name, seq, opt) == [type |-> type, name |-> name, seq |-> seq, opt |-> opt]
Constructor(name, fields) == [name |-> name, fields |-> fields]
Sum(types, attributes) ==
    [node |-> "Sum", types |-> types, fields |-> <<>>, attributes |-> attributes]
Product(fields, attributes) ==
    [node |-> "Product", types |-> <<>>, fields |-> fields, attributes |-> attributes]
Type(name, value) == [name |-> name, value |-> value]
\* self.types = { type.name: type.value for type in dfns }: a later
\* definition of a name replaces an earlier one.
Module(name, dfns) ==
    [name |-> name, dfns |-> dfns,
     types |-> [n \in {dfns[i].name : i \in 1..Len(dfns)} |->
                 LET last == CHOOSE i \in 1..Len(dfns) :
                                 /\ dfns[i].name = n
                                 /\ \A j \in 1..Len(dfns) : dfns[j].name = n => j <= i
                 IN dfns[last].value]]
NoModule == Module(<<>>, <<>>)

builtin_types ==
    {<<"i", "d", "e", "n", "t", "i", "f", "i", "e", "r">>,
     <<"s", "t", "r", "i", "n", "g">>,
     <<"i", "n", "t">>,
     <<"c", "o", "n", "s", "t", "a", "n", "t">>,
     <<"b", "o", "o", "l">>,
     <<"c", "o", "n", "v", "e", "r", "s", "i", "o", "n", "_", "f", "l", "a", "g">>}

(***************************************************************************)
(* Inputs.  Modules are built from a pool of definitions; a module is      *)
(* written out as the token sequence the grammar at the head of asdl.py    *)
(* gives it, one definition per line, and as the text of those tokens.     *)
(***************************************************************************)
kw_module == <<"m", "o", "d", "u", "l", "e">>
kw_attributes == <<"a", "t", "t", "r", "i", "b", "u", "t", "e", "s">>
w_int == <<"i", "n", "t">>

RECURSIVE Flatten(_)
Flatten(ss) == IF ss = <<>> THEN <<>> ELSE Head(ss) \o Flatten(Tail(ss))

TypePool ==
    { \* a = X(int x) | Y
      Type(<<"a">>, Sum(<<Constructor(<<"X">>, <<Field(w_int, <<"x">>, FALSE, FALSE)>>),
                         Constructor(<<"Y">>, <<>>)>>, <<>>)),
      \* b = X | X(zz? y) attributes (int x)
      Type(<<"b">>, Sum(<<Constructor(<<"X">>, <<>>),
                         Constructor(<<"X">>, <<Field(<<"z", "z">>, <<"y">>, FALSE, TRUE)>>)>>,
                       <<Field(w_int, <<"x">>, FALSE, FALSE)>>)),
      \* attributes = (int, a?* v) attributes (zz attributes)
      Type(kw_attributes,
           Product(<<Field(w_int, NoName, FALSE, FALSE),
                     Field(<<"a">>, <<"v">>, TRUE, TRUE)>>,
                   <<Field(<<"z", "z">>, kw_attributes, FALSE, FALSE)>>)),
      \* c = Z(attributes w)
      Type(<<"c">>, Sum(<<Constructor(<<"Z">>,
                                     <<Field(kw_attributes, <<"w">>, FALSE, FALSE)>>)>>,
                       <<>>)) }

RECURSIVE SeqsUpTo(_, _)
SeqsUpTo(S, n) ==
    IF n = 0 THEN {<<>>}
    ELSE LET shorter == SeqsUpTo(S, n - 1)
         IN shorter \cup {Append(s, x) : s \in shorter, x \in S}

Modules == {Module(<<"T">>, dfns) : dfns \in SeqsUpTo(TypePool, MaxDefs)}

\* field ::= TypeId ["?" | "*"] [Id]
RenderField(f, ln) ==
    <<Token("TypeId", f.type, ln)>>
    \o (IF f.opt THEN <<Token("Question", <<"?">>, ln)>> ELSE <<>>)
    \o (IF f.seq THEN <<Token("Asterisk", <<"*">>, ln)>> ELSE <<>>)
    \o (IF f.name = NoName THEN <<>> ELSE <<Token(identifier_kind(f.name), f.name, ln)>>)

\* fields ::= "(" { field, "," } field ")"
RenderFields(fs, ln) ==
    <<Token("LParen", <<"(">>, ln)>>
    \o Flatten([i \in 1..Len(fs) |->
                  (IF i = 1 THEN <<>> ELSE <<Token("Comma", <<",">>, ln)>>)
                  \o RenderField(fs[i], ln)])
    \o <<Token("RParen", <<")">>, ln)>>

\* ["attributes" fields]
RenderAttributes(fs, ln) ==
    IF fs = <<>> THEN <<>>
    ELSE <<Token("TypeId", kw_attributes, ln)>> \o RenderFields(fs, ln)

\* constructor ::= ConstructorId [fields]
RenderConstructor(c, ln) ==
    <<Token("ConstructorId", c.name, ln)>>
    \o (IF c.fields = <<>> THEN <<>> ELSE RenderFields(c.fields, ln))

\* type ::= product | sum
RenderValue(val, ln) ==
    IF val.node = "Product"
    THEN RenderFields(val.fields, ln) \o RenderAttributes(val.attributes, ln)
    ELSE Flatten([i \in 1..Len(val.types) |->
                    (IF i = 1 THEN <<>> ELSE <<Token("Pipe", <<"|">>, ln)>>)
                    \o RenderConstructor(val.types[i], ln)])
         \o RenderAttributes(val.attributes, ln)

\* module ::= "module" Id "{" [definitions] "}", definitions ::= { TypeId "=" type }
RenderModule(m) ==
    <<Token("TypeId", kw_module, 1), Token(identifier_kind(m.name), m.name, 1),
      Token("LBrace", <<"{">>, 1)>>
    \o Flatten([i \in 1..Len(m.dfns) |->
                  <<Token("TypeId", m.dfns[i].name, i + 1),
                    Token("Equals", <<"=">>, i + 1)>>
                  \o RenderValue(m.dfns[i].value, i + 1)])
    \o <<Token("RBrace", <<"}">>, Len(m.dfns) + 2)>>

\* The text of a token sequence: the values, a space between two tokens of
\* a line and a line break before a token of a later line.
RECURSIVE TextFrom(_, _)
TextFrom(toks, line) ==
    IF toks = <<>> THEN <<>>
    ELSE LET t == Head(toks)
         IN [i \in 1..(t.lineno - line) |-> "\n"] \o t.value
            \o (IF Len(toks) > 1 /\ toks[2].lineno = t.lineno THEN <<" ">> ELSE <<>>)
            \o TextFrom(Tail(toks), t.lineno)
TextOf(toks) == TextFrom(toks, 1)

\* The token sequences tried for module m, each with what was done to the
\* module's own tokens: nothing, cut short, a token added after the closing
\* brace, a fields list emptied to "()", or one token dropped.
RemoveRange(s, i, j) == SubSeq(s, 1, i - 1) \o SubSeq(s, j + 1, Len(s))
ClosingParen(s, i) == CHOOSE j \in i..Len(s) :
    s[j].kind = "RParen" /\ \A k \in i..(j - 1) : s[k].kind # "RParen"
Shapes(m) ==
    LET ts == RenderModule(m)
        n == Len(ts)
        last == ts[n].lineno
    IN {[shape |-> "conforming", toks |-> ts]}
       \cup {[shape |-> "truncated", toks |-> SubSeq(ts, 1, k)] : k \in 0..(n - 1)}
       \cup {[shape |-> "trailing", toks |-> Append(ts, x)] :
                x \in {Token("RBrace", <<"}">>, last), Token("TypeId", <<"x">>, last)}}
       \cup {[shape |-> "emptyfields",
              toks |-> RemoveRange(ts, i + 1, ClosingParen(ts, i) - 1)] :
                i \in {k \in 1..n : ts[k].kind = "LParen"}}
       \cup {[shape |-> "dropped", toks |-> RemoveRange(ts, k, k)] : k \in 1..n}

\* Raw text for the tokenizer alone: every string of at most MaxLen characters.
RawChars == {"a", "B", "9", "_", "=", "$", "-", " ", "\n"}
RawBufs == SeqsUpTo(RawChars, MaxLen)

(***************************************************************************)
(* The tokenizer alone: a consumer draining tokenize_asdl(buf).            *)
(***************************************************************************)
\* The effect of one next() on the generator's state.
Pull(r) ==
    /\ tokenizer' = r.g
    /\ yielded' = IF r.res = "yield" THEN Append(yielded, r.tok) ELSE yielded
    /\ gstate' = CASE r.res = "yield" -> "suspended"
                   [] r.res = "raise" -> "raised"
                   [] OTHER -> "exhausted"
    /\ gexc' = r.exc

IdleParser ==
    /\ cur_token = NoToken /\ pc = "idle" /\ locals = <<>> /\ result = <<>>
IdleChecker ==
    /\ mod = NoModule /\ v = <<>> /\ out = <<>>
    /\ cpc = [at |-> "idle", di |-> 0, ci |-> 0]
IdleVisitor ==
    /\ visit_log = <<>> /\ handlers = {}

InitTok ==
    /\ \E buf \in RawBufs :
          /\ input = [src |-> "raw", shape |-> "raw", buf |-> buf]
          /\ tokenizer = Generator(buf)
    /\ yielded = <<>> /\ gstate = "suspended" /\ gexc = NoExc
    /\ IdleParser /\ IdleChecker /\ IdleVisitor

tokenize_asdl ==
    /\ gstate = "suspended"
    /\ Pull(next_token(tokenizer))
    /\ UNCHANGED <<input, parseVars, checkVars, visitVars>>

NextTok == tokenize_asdl
SpecTok == InitTok /\ [][NextTok]_vars

(***************************************************************************)
(* ASDLParser.  One action per step of the recursive descent; pc names    *)
(* the method (or the line of it) about to run.  The parser reads tokens   *)
(* only through self._tokenizer, which parse() sets to tokenize_asdl(buf); *)
(* it is run here on that generator and, for what is said of the parser    *)
(* over token sequences, on an iterator over a given token sequence.       *)
(***************************************************************************)
_id_kinds == {"ConstructorId", "TypeId"}

Running == [status |-> "running", exc |-> NoExc, module |-> NoModule]
Raised(exc) == [status |-> "raised", exc |-> exc, module |-> NoModule]
Returned(m) == [status |-> "returned", exc |-> NoExc, module |-> m]

InitLocals ==
    [name |-> <<>>, defs |-> <<>>, typename |-> <<>>, node |-> None,
     sumlist |-> <<>>, consname |-> <<>>, caller |-> None, first |-> <<>>,
     fields |-> <<>>, ftype |-> <<>>, is_seq |-> FALSE, is_opt |-> FALSE]

Init ==
    /\ \E m \in Modules : \E s \in Shapes(m) : \E src \in {"text", "tokens"} :
          /\ input = [src |-> src, shape |-> s.shape, mod |-> m]
          /\ tokenizer = IF src = "text" THEN Generator(TextOf(s.toks))
                         ELSE Iterator(s.toks)
    /\ yielded = <<>> /\ gstate = "suspended" /\ gexc = NoExc
    /\ cur_token = NoToken /\ pc = "parse" /\ locals = InitLocals /\ result = Running
    /\ IdleChecker /\ IdleVisitor

\* The parser touches neither its input nor the checker.
ParserFrame == UNCHANGED <<input, checkVars, visitVars>>

\* An exception leaves the parser: parse() raises it.
Fail(exc) ==
    /\ pc' = "done" /\ result' = Raised(exc)
    /\ UNCHANGED <<cur_token, locals, tokVars>>

\* self.cur_token.kind (or .value) with cur_token None.
AttributeError == PyError("AttributeError")

\* A step that reads no token.
Goto(nextpc, newlocals) ==
    /\ pc' = nextpc /\ locals' = newlocals
    /\ UNCHANGED <<cur_token, result, tokVars>>

\* _advance(), then on to nextpc with newlocals (which hold the value
\* _advance returned, where the caller keeps it).  StopIteration makes
\* cur_token None; any other exception of the tokenizer propagates.
_advance(nextpc, newlocals) ==
    LET r == next_token(tokenizer)
    IN /\ Pull(r)
       /\ IF r.res = "raise"
          THEN /\ pc' = "done" /\ result' = Raised(r.exc)
               /\ UNCHANGED <<cur_token, locals>>
          ELSE /\ cur_token' = r.tok
               /\ pc' = nextpc /\ locals' = newlocals
               /\ UNCHANGED result

\* _match(kind): kinds is the tuple's members, or the one kind.
_match(kinds, nextpc, newlocals) ==
    IF cur_token = NoToken THEN Fail(AttributeError)
    ELSE IF cur_token.kind \in kinds THEN _advance(nextpc, newlocals)
    ELSE Fail(ASDLSyntaxError(<<"Unmatched", kinds, "found", cur_token.kind>>,
                              cur_token.lineno))

\* _at_keyword(keyword), cur_token not None.
_at_keyword(keyword) == cur_token.kind = "TypeId" /\ cur_token.value = keyword

\* parse(): the first _advance(), from cur_token None.
parse ==
    /\ pc = "parse" /\ ParserFrame
    /\ _advance("_parse_module", locals)

\* _parse_module, lines 330-336.
_parse_module ==
    /\ pc = "_parse_module" /\ ParserFrame
    /\ IF cur_token = NoToken THEN Fail(AttributeError)
       ELSE IF _at_keyword(kw_module) THEN _advance("module_name", locals)
       ELSE Fail(ASDLSyntaxError(<<"Expected module, found", cur_token.value>>,
                                 cur_token.lineno))

\* name = self._match( self._id_kinds )
module_name ==
    /\ pc = "module_name" /\ ParserFrame
    /\ _match(_id_kinds, "module_LBrace", [locals EXCEPT !.name = cur_token.value])

\* self._match( TokenKind.LBrace )
module_LBrace ==
    /\ pc = "module_LBrace" /\ ParserFrame
    /\ _match({"LBrace"}, "_parse_definitions", locals)

\* _parse_definitions: the loop test, and typename = self._advance().
_parse_definitions ==
    /\ pc = "_parse_definitions" /\ ParserFrame
    /\ IF cur_token = NoToken THEN Fail(AttributeError)
       ELSE IF cur_token.kind = "TypeId"
       THEN _advance("definition_Equals", [locals EXCEPT !.typename = cur_token.value])
       ELSE Goto("module_RBrace", locals)

\* self._match( TokenKind.Equals )
definition_Equals ==
    /\ pc = "definition_Equals" /\ ParserFrame
    /\ _match({"Equals"}, "_parse_type", locals)

\* _parse_type: a "(" starts a product, anything else must start a sum.
_parse_type ==
    /\ pc = "_parse_type" /\ ParserFrame
    /\ IF cur_token = NoToken THEN Fail(AttributeError)
       ELSE IF cur_token.kind = "LParen"
       THEN Goto("_parse_fields", [locals EXCEPT !.node = "Product", !.caller = "product"])
       ELSE _match({"ConstructorId"}, "_parse_optional_fields",
                   [locals EXCEPT !.node = "Sum", !.sumlist = <<>>,
                                  !.consname = cur_token.value])

\* _parse_optional_fields, for the constructor just named.
_parse_optional_fields ==
    /\ pc = "_parse_optional_fields" /\ ParserFrame
    /\ IF cur_token = NoToken THEN Fail(AttributeError)
       ELSE IF cur_token.kind = "LParen"
       THEN Goto("_parse_fields", [locals EXCEPT !.caller = "constructor"])
       ELSE Goto("more_constructors",
                 [locals EXCEPT !.sumlist = Append(@, Constructor(locals.consname, <<>>))])

\* The while loop of _parse_type: a "|" brings one more constructor.
more_constructors ==
    /\ pc = "more_constructors" /\ ParserFrame
    /\ IF cur_token = NoToken THEN Fail(AttributeError)
       ELSE IF cur_token.kind = "Pipe" THEN _advance("constructor_name", locals)
       ELSE Goto("_parse_optional_attributes", locals)

\* self._match( TokenKind.ConstructorId ) inside the loop.
constructor_name ==
    /\ pc = "constructor_name" /\ ParserFrame
    /\ _match({"ConstructorId"}, "_parse_optional_fields",
              [locals EXCEPT !.consname = cur_token.value])

\* _parse_fields: fields = [ ] and the "(".
_parse_fields ==
    /\ pc = "_parse_fields" /\ ParserFrame
    /\ _match({"LParen"}, "fields_loop", [locals EXCEPT !.fields = <<>>])

\* fields_loop with the type name read but not stepped over.
fields_loop_peek ==
    /\ pc = "fields_loop" /\ ParserFrame
    /\ IF cur_token = NoToken THEN Fail(AttributeError)
       ELSE IF cur_token.kind = "TypeId"
       THEN Goto("quantifier_opt",
                 [locals EXCEPT !.ftype = cur_token.value,
                                !.is_seq = FALSE, !.is_opt = FALSE])
       ELSE Goto("fields_end", locals)

\* The while test of _parse_fields, and typename = self._advance().
fields_loop ==
    /\ pc = "fields_loop" /\ ParserFrame
    /\ IF cur_token = NoToken THEN Fail(AttributeError)
       ELSE IF cur_token.kind = "TypeId"
       THEN _advance("quantifier_opt",
                     [locals EXCEPT !.ftype = cur_token.value,
                                    !.is_seq = FALSE, !.is_opt = FALSE])
       ELSE Goto("fields_end", locals)

\* _parse_optional_field_quantifier: the "?" test.
quantifier_opt ==
    /\ pc = "quantifier_opt" /\ ParserFrame
    /\ IF cur_token = NoToken THEN Fail(AttributeError)
       ELSE IF cur_token.kind = "Question"
       THEN _advance("quantifier_seq", [locals EXCEPT !.is_opt = TRUE])
       ELSE Goto("quantifier_seq", locals)

\* _parse_optional_field_quantifier: the "*" test, whatever the first found.
quantifier_seq ==
    /\ pc = "quantifier_seq" /\ ParserFrame
    /\ IF cur_token = NoToken THEN Fail(AttributeError)
       ELSE IF cur_token.kind = "Asterisk"
       THEN _advance("field_id", [locals EXCEPT !.is_seq = TRUE])
       ELSE Goto("field_id", locals)

\* id = ... and fields.append( Field( typename, id, seq=is_seq, opt=is_opt ) )
field_id ==
    /\ pc = "field_id" /\ ParserFrame
    /\ IF cur_token = NoToken THEN Fail(AttributeError)
       ELSE IF cur_token.kind \in _id_kinds
       THEN _advance("field_separator",
                [locals EXCEPT !.fields = Append(@, Field(locals.ftype, cur_token.value,
                                                          locals.is_seq, locals.is_opt))])
       ELSE Goto("field_separator",
                [locals EXCEPT !.fields = Append(@, Field(locals.ftype, NoName,
                                                          locals.is_seq, locals.is_opt))])

\* The end of the loop body: break at ")", step over a ",".
field_separator ==
    /\ pc = "field_separator" /\ ParserFrame
    /\ IF cur_token = NoToken THEN Fail(AttributeError)
       ELSE IF cur_token.kind = "RParen" THEN Goto("fields_end", locals)
       ELSE IF cur_token.kind = "Comma" THEN _advance("fields_loop", locals)
       ELSE Goto("fields_loop", locals)

\* The Type a finished definition appends to defs.
FinishType(attributes) ==
    [locals EXCEPT !.defs =
        Append(@, Type(locals.typename,
                       IF locals.node = "Sum" THEN Sum(locals.sumlist, attributes)
                       ELSE Product(locals.first, attributes)))]

\* self._match( TokenKind.RParen ) and return fields, to the caller.
fields_end ==
    /\ pc = "fields_end" /\ ParserFrame
    /\ CASE locals.caller = "product" ->
              _match({"RParen"}, "_parse_optional_attributes",
                     [locals EXCEPT !.first = locals.fields])
         [] locals.caller = "constructor" ->
              _match({"RParen"}, "more_constructors",
                     [locals EXCEPT !.sumlist =
                         Append(@, Constructor(locals.consname, locals.fields))])
         [] OTHER ->
              _match({"RParen"}, "_parse_definitions", FinishType(locals.fields))

\* _parse_optional_attributes, after a product's fields or a sum's constructors.
_parse_optional_attributes ==
    /\ pc = "_parse_optional_attributes" /\ ParserFrame
    /\ IF cur_token = NoToken THEN Fail(AttributeError)
       ELSE IF _at_keyword(kw_attributes)
       THEN _advance("_parse_fields", [locals EXCEPT !.caller = "attributes"])
       ELSE Goto("_parse_definitions", FinishType(<<>>))

\* self._match( TokenKind.RBrace ) and return Module( name, defs ).
module_RBrace ==
    /\ pc = "module_RBrace" /\ ParserFrame
    /\ IF cur_token # NoToken /\ cur_token.kind = "RBrace"
       THEN LET r == next_token(tokenizer)
            IN /\ Pull(r)
               /\ pc' = "done"
               /\ IF r.res = "raise"
                  THEN result' = Raised(r.exc) /\ UNCHANGED <<cur_token, locals>>
                  ELSE /\ result' = Returned(Module(locals.name, locals.defs))
                       /\ cur_token' = r.tok
                       /\ UNCHANGED locals
       ELSE _match({"RBrace"}, "done", locals)

Next ==
    \/ parse \/ _parse_module \/ module_name \/ module_LBrace
    \/ _parse_definitions \/ definition_Equals \/ _parse_type
    \/ _parse_optional_fields \/ more_constructors \/ constructor_name
    \/ _parse_fields \/ fields_loop \/ quantifier_opt \/ quantifier_seq
    \/ field_id \/ field_separator \/ fields_end
    \/ _parse_optional_attributes \/ module_RBrace

Spec == Init /\ [][Next]_vars

(***************************************************************************)
(* VisitorBase.visit.                                                      *)
(***************************************************************************)
NodeKinds == {"Module", "Type", "Constructor", "Field", "Sum", "Product"}

\* self.cache = { }: no class has an entry.
EmptyCache == [k \in NodeKinds |-> "absent"]

\* self.cache.get( klass ): None for a class without an entry, and None
\* for a class whose entry is None.
cache_get(cache, klass) ==
    IF cache[klass] = "absent" THEN None ELSE cache[klass]

\* getattr( self, "visit" + klass.__name__, None ), hs the kinds the
\* visitor's class defines a visit method for.
getattr_visit(hs, klass) == IF klass \in hs THEN "visit" \o klass ELSE None

\* The lookup of visit(): the method found, the cache it leaves, and
\* whether getattr ran.
lookup(cache, hs, klass) ==
    LET meth == cache_get(cache, klass)
    IN IF meth = None
       THEN [meth |-> getattr_visit(hs, klass),
             cache |-> [cache EXCEPT ![klass] = getattr_visit(hs, klass)],
             resolved |-> TRUE]
       ELSE [meth |-> meth, cache |-> cache, resolved |-> FALSE]

\* The cache after visit() on nodes of these kinds, one after the other.
RECURSIVE CacheAfter(_, _, _)
CacheAfter(cache, hs, kinds) ==
    IF kinds = <<>> THEN cache
    ELSE CacheAfter(lookup(cache, hs, Head(kinds)).cache, hs, Tail(kinds))

\* A visitor of any subclass of VisitorBase: its class defines visit
\* methods for some of the node kinds, and visit() is called on nodes.
InitVisit ==
    /\ handlers \in SUBSET NodeKinds
    /\ v = [cache |-> EmptyCache]
    /\ visit_log = [k \in NodeKinds |-> [visits |-> 0, getattr |-> 0, calls |-> 0]]
    /\ input = <<>> /\ out = <<>> /\ mod = NoModule
    /\ cpc = [at |-> "visitor", di |-> 0, ci |-> 0]
    /\ tokenizer = <<>> /\ yielded = <<>> /\ gstate = "idle" /\ gexc = NoExc
    /\ IdleParser

Visits == visit_log["Module"].visits + visit_log["Type"].visits
          + visit_log["Constructor"].visits + visit_log["Field"].visits
          + visit_log["Sum"].visits + visit_log["Product"].visits

\* visit( obj ) on a node of kind klass; the handler's own effect is left out.
visit(klass) ==
    /\ cpc.at = "visitor"
    /\ Visits < MaxVisits
    /\ LET l == lookup(v.cache, handlers, klass)
       IN /\ v' = [v EXCEPT !.cache = l.cache]
          /\ visit_log' = [visit_log EXCEPT
                ![klass].visits = @ + 1,
                ![klass].getattr = IF l.resolved THEN @ + 1 ELSE @,
                ![klass].calls = IF l.meth # None THEN @ + 1 ELSE @]
    /\ UNCHANGED <<input, tokVars, parseVars, mod, out, cpc, handlers>>

NextVisit == \E klass \in NodeKinds : visit(klass)
SpecVisit == InitVisit /\ [][NextVisit]_vars

(***************************************************************************)
(* Check and check().  A dict is the sequence of its items in insertion    *)
(* order; dict.get of a missing key is None, written NoName for a name.    *)
(***************************************************************************)
CheckHandlers == NodeKinds

Keys(d) == {d[i].key : i \in 1..Len(d)}
dict_get(d, key) ==
    IF key \in Keys(d) THEN d[CHOOSE i \in 1..Len(d) : d[i].key = key].value
    ELSE NoName
dict_set(d, key, value) ==
    IF key \in Keys(d)
    THEN [i \in 1..Len(d) |-> IF d[i].key = key THEN [key |-> key, value |-> value]
                              ELSE d[i]]
    ELSE Append(d, [key |-> key, value |-> value])

Line(text, a, b) == [text |-> text, a |-> a, b |-> b]

\* Check.__init__
NewCheck == [cache |-> EmptyCache, cons |-> <<>>, errors |-> 0, types |-> <<>>,
             done |-> FALSE, ret |-> FALSE]

\* visitField: l = self.types.setdefault( key, [ ] ); l.append( name )
visitField(types, field, name) ==
    dict_set(types, field.type,
             IF field.type \in Keys(types)
             THEN Append(dict_get(types, field.type), name)
             ELSE <<name>>)

\* for f in fields: self.visit( f, name )
RECURSIVE visitFields(_, _, _)
visitFields(types, fields, name) ==
    IF fields = <<>> THEN types
    ELSE visitFields(visitField(types, Head(fields), name), Tail(fields), name)

\* register with the name stored on a conflict too.
register_overwrite(c, key, name) ==
    LET conflict == dict_get(c.cons, key)
    IN IF conflict = NoName
       THEN [cons |-> dict_set(c.cons, key, name), errors |-> c.errors, printed |-> <<>>]
       ELSE [cons |-> dict_set(c.cons, key, name), errors |-> c.errors + 1,
             printed |-> <<Line("Redefinition of constructor", key, <<>>),
                           Line("Defined in", conflict, name)>>]

\* The first half of visitConstructor: register the name, or report the
\* conflict and count it.
register(c, key, name) ==
    LET conflict == dict_get(c.cons, key)
    IN IF conflict = NoName
       THEN [cons |-> dict_set(c.cons, key, name), errors |-> c.errors, printed |-> <<>>]
       ELSE [cons |-> c.cons, errors |-> c.errors + 1,
             printed |-> <<Line("Redefinition of constructor", key, <<>>),
                           Line("Defined in", conflict, name)>>]

InitCheck ==
    /\ mod \in Modules
    /\ v = NewCheck /\ out = <<>>
    /\ cpc = [at |-> "check", di |-> 0, ci |-> 0]
    /\ input = <<>>
    /\ tokenizer = <<>> /\ yielded = <<>> /\ gstate = "idle" /\ gexc = NoExc
    /\ IdleParser /\ IdleVisitor

CheckFrame == UNCHANGED <<input, tokVars, parseVars, mod, visitVars>>

FieldKinds(fields) == [i \in 1..Len(fields) |-> "Field"]

\* check(): v = Check(); v.visit( mod ), which enters visitModule.
check ==
    /\ cpc.at = "check" /\ CheckFrame
    /\ v' = [v EXCEPT !.cache = CacheAfter(@, CheckHandlers, <<"Module">>)]
    /\ cpc' = [at |-> "visitModule", di |-> 1, ci |-> 0]
    /\ UNCHANGED out

\* visitModule reaches a definition whose value is a Product: visitType,
\* then visitProduct over prod.fields.
visitProduct ==
    /\ cpc.at = "visitModule" /\ cpc.di <= Len(mod.dfns) /\ CheckFrame
    /\ LET type == mod.dfns[cpc.di]
       IN /\ type.value.node = "Product"
          /\ v' = [v EXCEPT
                !.cache = CacheAfter(@, CheckHandlers,
                              <<"Type", "Product">> \o FieldKinds(type.value.fields)),
                !.types = visitFields(@, type.value.fields, type.name)]
          /\ cpc' = [cpc EXCEPT !.di = @ + 1]
    /\ UNCHANGED out

\* visitModule reaches a definition whose value is a Sum: visitType, then
\* visitSum starts on sum.types.
visitSum ==
    /\ cpc.at = "visitModule" /\ cpc.di <= Len(mod.dfns) /\ CheckFrame
    /\ LET type == mod.dfns[cpc.di]
       IN /\ type.value.node = "Sum"
          /\ v' = [v EXCEPT !.cache = CacheAfter(@, CheckHandlers, <<"Type", "Sum">>)]
          /\ cpc' = IF type.value.types = <<>> THEN [cpc EXCEPT !.di = @ + 1]
                    ELSE [at |-> "visitSum", di |-> cpc.di, ci |-> 1]
    /\ UNCHANGED out

\* visitConstructor on the next constructor of the sum, its fields included.
visitConstructor ==
    /\ cpc.at = "visitSum" /\ CheckFrame
    /\ LET type == mod.dfns[cpc.di]
           cons == type.value.types[cpc.ci]
           r == register(v, cons.name, type.name)
       IN /\ v' = [v EXCEPT
                !.cache = CacheAfter(@, CheckHandlers,
                              <<"Constructor">> \o FieldKinds(cons.fields)),
                !.cons = r.cons,
                !.errors = r.errors,
                !.types = visitFields(@, cons.fields, cons.name)]
          /\ out' = out \o r.printed
          /\ cpc' = IF cpc.ci < Len(type.value.types)
                    THEN [cpc EXCEPT !.ci = @ + 1]
                    ELSE [at |-> "visitModule", di |-> cpc.di + 1, ci |-> 0]

\* The types of the usage index that are neither declared nor builtin.
RECURSIVE undefined_types(_, _)
undefined_types(types, m) ==
    IF types = <<>> THEN <<>>
    ELSE LET t == Head(types)
         IN (IF t.key \notin DOMAIN m.types /\ t.key \notin builtin_types
             THEN <<Line("Undefined type", t.key, t.value)>> ELSE <<>>)
            \o undefined_types(Tail(types), m)

\* The rest of check(), after the traversal: the loop over v.types and the
\* return value.
check_types ==
    /\ cpc.at = "visitModule" /\ cpc.di > Len(mod.dfns) /\ CheckFrame
    /\ LET undefined == undefined_types(v.types, mod)
       IN /\ v' = [v EXCEPT !.errors = @ + Len(undefined),
                            !.done = TRUE,
                            !.ret = (v.errors + Len(undefined) = 0)]
          /\ out' = out \o undefined
    /\ cpc' = [at |-> "done", di |-> cpc.di, ci |-> 0]

NextCheck == check \/ visitProduct \/ visitSum \/ visitConstructor \/ check_types
SpecCheck == InitCheck /\ [][NextCheck]_vars

(***************************************************************************)
(* What the claims say, stated over the model.                             *)
(***************************************************************************)
Last(sq) == sq[Len(sq)]

\* The token kind whose value is n.
KindOfValue(n) == CHOOSE k \in KindNames : TokenKind[k] = n

\* C4: every character of the operator set = , ? | ( ) * { } gives exactly
\* one token of the kind mapped to it, with the line of the character; any
\* other character that is neither alphanumeric nor in a comment fails with
\* a syntax error carrying the character and the line.  (The claim as
\* stated; the code raises TypeError on every such character.)
C4_OperatorTokens ==
    LET c == tokenizer.c
    IN (gstate # "exhausted" /\ Len(c) = 1 /\ ~IsWordChar(c[1])) =>
          IF c[1] \in DOMAIN operator_table
          THEN /\ gstate = "suspended"
               /\ yielded # <<>>
               /\ Last(yielded) = Token(KindOfValue(operator_table[c[1]]), c, tokenizer.li)
          ELSE /\ gstate = "raised"
               /\ gexc = ASDLSyntaxError(<<"Invalid operator">> \o c, tokenizer.li)

\* The words of a text, read character by character: a run of word
\* characters is a word, "--" hides the rest of its line.
RECURSIVE WordsFrom(_, _, _, _)
WordsFrom(buf, i, word, comment) ==
    LET flush == IF word = <<>> THEN <<>> ELSE <<word>>
    IN IF i > Len(buf) THEN flush
       ELSE IF buf[i] = "\n" THEN flush \o WordsFrom(buf, i + 1, <<>>, FALSE)
       ELSE IF comment THEN WordsFrom(buf, i + 1, <<>>, TRUE)
       ELSE IF IsWordChar(buf[i]) THEN WordsFrom(buf, i + 1, Append(word, buf[i]), FALSE)
       ELSE IF buf[i] = "-" /\ i < Len(buf) /\ buf[i + 1] = "-"
       THEN flush \o WordsFrom(buf, i + 1, <<>>, TRUE)
       ELSE flush \o WordsFrom(buf, i + 1, <<>>, FALSE)
WordsOf(buf) == WordsFrom(buf, 1, <<>>, FALSE)

\* C5 as stated: every alphanumeric word the tokenizer reads becomes one
\* identifier token, a constructor-identifier if its first character is
\* upper case and a type-identifier otherwise.
C5_EveryWordAnIdentifier ==
    LET c == tokenizer.c
    IN (c # <<>> /\ IsWordChar(c[1])) =>
          /\ gstate # "raised"
          /\ yielded # <<>>
          /\ Last(yielded).value = c
          /\ Last(yielded).kind = IF isupper(c[1]) THEN "ConstructorId" ELSE "TypeId"

\* C5, amended: every word the tokenizer reads whose first character is a
\* letter becomes exactly one identifier token, a constructor-identifier if
\* that character is upper case and a type-identifier otherwise, so the
\* kind depends on nothing but the case of the first character; a word
\* that starts with a digit or an underscore never becomes an identifier
\* token.  A text read to its end has given one token per word, in order.
C5_LetterWordsAreIdentifiers ==
    LET c == tokenizer.c
    IN /\ (c # <<>> /\ isalpha(c[1])) =>
             /\ gstate # "raised"
             /\ yielded # <<>>
             /\ Last(yielded).value = c
             /\ Last(yielded).kind = IF isupper(c[1]) THEN "ConstructorId" ELSE "TypeId"
       /\ \A i \in 1..Len(yielded) :
             /\ isalpha(yielded[i].value[1])
             /\ yielded[i].kind = IF isupper(yielded[i].value[1]) THEN "ConstructorId"
                                  ELSE "TypeId"
       /\ \A i, j \in 1..Len(yielded) :
             isupper(yielded[i].value[1]) = isupper(yielded[j].value[1])
                => yielded[i].kind = yielded[j].kind
       /\ gstate = "exhausted" =>
             [i \in 1..Len(yielded) |-> yielded[i].value] = WordsOf(input.buf)

\* C5's case: a text has been read to its end and has given a word of
\* mixed case as a token.
C5_Witness ==
    /\ gstate = "exhausted"
    /\ \E i \in 1..Len(yielded) :
          /\ Len(yielded[i].value) >= 2
          /\ isalpha(yielded[i].value[2])
          /\ isupper(yielded[i].value[1]) # isupper(yielded[i].value[2])

\* A module's fields: those of its products and constructors, and those of
\* the attribute lists.
RECURSIVE SeqToSet(_)
SeqToSet(sq) == IF sq = <<>> THEN {} ELSE {Head(sq)} \cup SeqToSet(Tail(sq))
ConstructorsOf(m, d) ==
    IF m.dfns[d].value.node = "Sum" THEN m.dfns[d].value.types ELSE <<>>
OwnFields(m) ==
    UNION {SeqToSet(m.dfns[d].value.fields)
           \cup UNION {SeqToSet(ConstructorsOf(m, d)[c].fields) :
                         c \in 1..Len(ConstructorsOf(m, d))} : d \in 1..Len(m.dfns)}
AttributeFields(m) ==
    UNION {SeqToSet(m.dfns[d].value.attributes) : d \in 1..Len(m.dfns)}
AllFields(m) == OwnFields(m) \cup AttributeFields(m)
DefNames(m) == [d \in 1..Len(m.dfns) |-> m.dfns[d].name]

\* A parse of text that finished.
TextParsed == input.src = "text" /\ pc = "done"

\* C2: a token sequence that violates the grammar (cut before the closing
\* brace, empty, with an empty fields list "()", or with tokens after the
\* closing brace) makes parse fail with a syntax error: it returns no
\* Module and raises nothing else.  (The claim as stated, on parse(buf).)
C2_ViolationsAreSyntaxErrors ==
    (TextParsed /\ input.shape \in {"truncated", "trailing", "emptyfields"}) =>
        /\ result.status = "raised"
        /\ result.exc.type = "ASDLSyntaxError"
        /\ result.exc.lineno > 0 \/ result.exc.unknown

\* The grammar gives a field at most one of "?" and "*".
Conforms(m) == \A f \in AllFields(m) : ~(f.seq /\ f.opt)

\* C3: for input that conforms to the grammar, parse succeeds and the
\* Module's dfns hold one Type per top-level definition of the source, in
\* textual order, each with that definition's name.  (The claim as stated.)
C3_DefinitionsInOrder ==
    (TextParsed /\ input.shape = "conforming" /\ Conforms(input.mod)) =>
        /\ result.status = "returned"
        /\ DefNames(result.module) = DefNames(input.mod)

\* C7: a field whose type name is followed by both "?" and "*" is accepted
\* and recorded as a Field with both opt and seq set.  (The claim as stated.)
C7_BothQuantifiers ==
    (TextParsed /\ input.shape = "conforming" /\ ~Conforms(input.mod)) =>
        /\ result.status = "returned"
        /\ {f \in AllFields(result.module) : f.seq /\ f.opt}
             = {f \in AllFields(input.mod) : f.seq /\ f.opt}

\* The module uses the word attributes as a definition name, a field's type
\* or a field's binding name.
NamesAttributes(m) ==
    \/ \E d \in 1..Len(m.dfns) : m.dfns[d].name = kw_attributes
    \/ \E f \in AllFields(m) : f.type = kw_attributes \/ f.name = kw_attributes

\* C8: "attributes" is a keyword only right after a fields list or a
\* constructor list; as a definition name at any position, or as a field's
\* type or binding name, it is an ordinary identifier and the parse is
\* unaffected: the module comes out as written.  (The claim as stated.)
C8_AttributesIsContextual ==
    (TextParsed /\ input.shape = "conforming" /\ NamesAttributes(input.mod)) =>
        /\ result.status = "returned"
        /\ result.module = input.mod

\* A step that enters the body of the definitions loop, the constructor
\* loop or the fields loop.
LoopIteration ==
    \/ pc = "_parse_definitions" /\ pc' = "definition_Equals"
    \/ pc = "more_constructors" /\ pc' = "constructor_name"
    \/ pc = "fields_loop" /\ pc' = "quantifier_opt"

\* The steps left in a method before it reads a token, returns or fails:
\* a step that reads no token goes to a place of lower rank.
Rank(at) ==
    CASE at = "done" -> 0
      [] at \in {"quantifier_opt", "_parse_type"} -> 6
      [] at \in {"quantifier_seq", "_parse_optional_fields"} -> 5
      [] at \in {"field_id", "more_constructors"} -> 4
      [] at \in {"field_separator", "_parse_optional_attributes"} -> 3
      [] at \in {"fields_loop", "_parse_definitions"} -> 2
      [] OTHER -> 1
\* The size of the input: its tokens, or the characters of its text.
RECURSIVE TotalLen(_)
TotalLen(ss) == IF ss = <<>> THEN 0 ELSE Len(Head(ss)) + TotalLen(Tail(ss))
InputSize ==
    IF tokenizer.src = "tokens" THEN Len(tokenizer.toks) ELSE TotalLen(tokenizer.lines)

\* The parser's place in the token sequence: the index of cur_token, the
\* end of the input being one past the last token.
ParserPosition == Len(yielded) + (IF gstate = "exhausted" THEN 1 ELSE 0)

\* C10: parse terminates on every finite token sequence, by returning a
\* Module or by failing: every iteration of the definitions loop, the
\* constructor loop and the fields loop consumes at least one token, and
\* the token position never moves backwards.  Termination is the variant:
\* every step of the parser ends the parse, moves past a token, or goes
\* to a place of lower rank, and the position is bounded by the input.
C10_ParseTerminates ==
    /\ [][/\ TokenPosition(tokenizer)' >= TokenPosition(tokenizer)
          /\ ParserPosition' >= ParserPosition
          /\ SubSeq(yielded', 1, Len(yielded)) = yielded]_vars
    /\ [][LoopIteration => ParserPosition' = ParserPosition + 1]_vars
    /\ [][\/ pc' = "done"
          \/ ParserPosition' > ParserPosition
          \/ Rank(pc') < Rank(pc)]_vars
    /\ [](/\ ParserPosition <= InputSize + 1
          /\ pc = "done" <=> result.status \in {"returned", "raised"})

\* C10's case: a parse over a token sequence has returned a Module after
\* going round each of the three loops more than once.
C10_Witness ==
    /\ input.src = "tokens" /\ pc = "done" /\ result.status = "returned"
    /\ Len(result.module.dfns) >= 2
    /\ \E d \in 1..Len(result.module.dfns) :
          /\ Len(ConstructorsOf(result.module, d)) >= 2
    /\ \E d \in 1..Len(result.module.dfns) :
          Len(result.module.dfns[d].value.fields) >= 2

\* The constructors met so far, in traversal order, each with its
\* enclosing definition.
Occurrences(m, d) ==
    [c \in 1..Len(ConstructorsOf(m, d)) |->
        [name |-> ConstructorsOf(m, d)[c].name, def |-> m.dfns[d].name,
         fields |-> ConstructorsOf(m, d)[c].fields]]
Visited ==
    Flatten([d \in 1..Len(mod.dfns) |->
        IF d < cpc.di THEN Occurrences(mod, d)
        ELSE IF d = cpc.di /\ cpc.at = "visitSum"
        THEN SubSeq(Occurrences(mod, d), 1, cpc.ci - 1)
        ELSE <<>>])
AllOccurrences(m) == Flatten([d \in 1..Len(m.dfns) |-> Occurrences(m, d)])
\* The definition of the first occurrence of name in occ.
FirstDef(occ, name) ==
    occ[CHOOSE i \in 1..Len(occ) :
            occ[i].name = name /\ \A j \in 1..(i - 1) : occ[j].name # name].def
\* The occurrences of occ that repeat an earlier name, in order.
RECURSIVE Repeats(_, _)
Repeats(occ, n) ==
    IF n = 0 THEN <<>>
    ELSE Repeats(occ, n - 1)
         \o (IF \E j \in 1..(n - 1) : occ[j].name = occ[n].name THEN <<occ[n]>> ELSE <<>>)
\* The places that use type t, in traversal order: a product's fields under
\* the definition's name, a constructor's under the constructor's.
UsesIn(fields, t, name) ==
    Flatten([i \in 1..Len(fields) |-> IF fields[i].type = t THEN <<name>> ELSE <<>>])
ExpectedUses(m, t) ==
    Flatten([d \in 1..Len(m.dfns) |->
        UsesIn(m.dfns[d].value.fields, t, m.dfns[d].name)
        \o Flatten([c \in 1..Len(ConstructorsOf(m, d)) |->
              UsesIn(ConstructorsOf(m, d)[c].fields, t, ConstructorsOf(m, d)[c].name)])])
Reports == SelectSeq(out, LAMBDA l : l.text = "Defined in")

\* C6: during a check traversal the registry maps each constructor name to
\* the enclosing definition of its first occurrence in traversal order; a
\* later occurrence leaves the registry unchanged, adds exactly one to the
\* error counter (k occurrences give k-1 violations), reports the first
\* and the current definition, and does not abort: the fields of the
\* duplicate constructor and all later definitions are still visited.
C6_FirstRegistrationWins ==
    /\ [](cpc.at \in {"visitModule", "visitSum", "done"} =>
            /\ Keys(v.cons) = {Visited[i].name : i \in 1..Len(Visited)}
            /\ \A i \in 1..Len(Visited) :
                  dict_get(v.cons, Visited[i].name) = FirstDef(Visited, Visited[i].name)
            /\ Len(Reports) = Len(Visited) - Cardinality(Keys(v.cons))
            /\ cpc.at # "done" => v.errors = Len(Reports)
            /\ Reports = [i \in 1..Len(Repeats(Visited, Len(Visited))) |->
                  LET o == Repeats(Visited, Len(Visited))[i]
                  IN Line("Defined in", FirstDef(Visited, o.name), o.def)])
    /\ [](cpc.at = "done" =>
            /\ Visited = AllOccurrences(mod)
            /\ \A f \in OwnFields(mod) :
                  dict_get(v.types, f.type) = ExpectedUses(mod, f.type))
    /\ [][/\ \A key \in Keys(v.cons) : dict_get(v.cons', key) = dict_get(v.cons, key)
          /\ cpc.at = "visitSum" =>
                /\ cpc'.at \in {"visitSum", "visitModule"}
                /\ IF mod.dfns[cpc.di].value.types[cpc.ci].name \in Keys(v.cons)
                   THEN v.cons' = v.cons /\ v.errors' = v.errors + 1
                   ELSE v.errors' = v.errors]_vars

\* C6's case: the traversal has finished with a name met three times, two
\* conflicts counted, and a repeated constructor that has a field.
C6_Witness ==
    /\ cpc.at = "done"
    /\ Len(Reports) >= 2
    /\ \E i, j, k \in 1..Len(Visited) :
          /\ i < j /\ j < k
          /\ Visited[i].name = Visited[j].name /\ Visited[j].name = Visited[k].name
          /\ Visited[i].def # Visited[k].def
    /\ \E o \in SeqToSet(Repeats(Visited, Len(Visited))) : o.fields # <<>>

NoRepeatedConstructor(m) ==
    \A i, j \in 1..Len(AllOccurrences(m)) :
        AllOccurrences(m)[i].name = AllOccurrences(m)[j].name => i = j
Known(m, t) == t \in builtin_types \/ t \in {m.dfns[d].name : d \in 1..Len(m.dfns)}

\* C1: check(module) returns true if and only if no constructor name
\* appears more than once anywhere in the module and the type of every
\* field, those of the attribute lists of sums and products included, is
\* a builtin or a name the module declares.  (The claim as stated.)
C1_CheckIffWellFormed ==
    cpc.at = "done" =>
        (v.ret <=> /\ NoRepeatedConstructor(mod)
                   /\ \A f \in AllFields(mod) : Known(mod, f.type))

\* C9: on one visitor instance the handler of each node kind is resolved at
\* most once, on the first visit of that kind, and every later visit uses
\* the cached result, for kinds with a handler and for kinds without one;
\* a kind without a handler is a no-op on every visit.  (The claim as stated.)
C9_ResolvedOncePerKind ==
    \A k \in NodeKinds :
        /\ visit_log[k].getattr <= 1
        /\ k \notin handlers => visit_log[k].calls = 0

=============================================================================
